---- MODULE Spec2Model ----
(***************************************************************************)
(* Model of the content-enrichment pipeline (capture controllers, BullMQ   *)
(* queue, worker job processItemJob) and of the search controller of       *)
(* Project Synapse.                                                         *)
(*                                                                         *)
(* Strings are abstracted to records [src, len, tail]: `src` names where   *)
(* the characters come from, `len` is the number of characters taken from  *)
(* that source and `tail` the number of literal characters appended.       *)
(* Scores are integers in hundredths (0.6 is 60).                           *)
(***************************************************************************)
EXTENDS Integers, Sequences, FiniteSets, TLC

\* ---------------------------------------------------------------- bounds
MaxRequeues == 1
MaxSearchItems == 2
MaxLimit == 2
MaxVecItems == 2
MaxK == 2
MaxWords == 3
Precision == 12

\* ------------------------------------------------------ program constants
SummaryLimit == 100
EllipsisLen == 3
Concurrency == 5
WorkerAttempts == 3
DefaultAttempts == 1
BackoffDelay == 2000
MinScore == 30
KeywordScore == 60
TypeSearchScore == 70

\* A job reads and writes only the rows of its own item, so the pipeline is
\* followed for one captured item.
ItemIds == {1}

VARIABLES
  items,      \* item store: itemId -> Item row joined with its Content and Media
  jobs,       \* the process-item queue: jobId -> job, with the handler's position
  vectors,    \* item ids that have a stored embedding (POST /api/embeddings)
  apiKey,     \* process.env.OPENAI_API_KEY is configured
  requeues,   \* calls of queueItemProcessing made outside the capture handlers
  dupAdds,    \* items for which such a call found an unfinished job of the item
  sStore,     \* search: the items of the store as the query sees them
  sQuery,     \* search: the request (interpreted query and limit)
  sResults,   \* search: the results of the response
  sDone,      \* search: the request has been answered
  index,      \* InMemoryVectorStore.vectors: the Map's entries in insertion order
  vQuery,     \* vector index: the arguments of the search call
  vResults,   \* vector index: the list the search call returned
  vThrew,     \* vector index: the search call threw
  vDone,      \* vector index: the search call has been made
  iQuery,     \* query interpreter: the query, a sequence of words
  iResult,    \* query interpreter: what extractTypeFilter returned
  iDone,      \* query interpreter: the call has been made
  pCall,      \* provider: the call made and what the backends answered
  pResult,    \* provider: the backend calls made and what the call returned
  pDone,      \* provider: the call has been made
  eItems,     \* server: the ids of the rows of the items table
  eRows,      \* server: the rows of the embeddings table, <<itemId, vectorId>>
  eReqs,      \* server: the POST /api/embeddings requests and their position
  eLog,       \* server: the requests that have written the index, in order
  eDeleted    \* server: the ids of the items that were deleted

pipelineVars == <<items, jobs, vectors, apiKey, requeues, dupAdds>>
vectorVars == <<index, vQuery, vResults, vThrew, vDone>>
interpretVars == <<iQuery, iResult, iDone>>
providerVars == <<pCall, pResult, pDone>>
storeVars == <<eItems, eRows, eReqs, eLog, eDeleted>>
queryVars == <<sStore, sQuery, sResults, sDone>>
searchVars == <<queryVars, vectorVars, interpretVars, providerVars, storeVars>>
vars == <<items, jobs, vectors, apiKey, requeues, dupAdds,
          sStore, sQuery, sResults, sDone,
          index, vQuery, vResults, vThrew, vDone, iQuery, iResult, iDone,
          pCall, pResult, pDone, eItems, eRows, eReqs, eLog, eDeleted>>

\* ------------------------------------------------------------- strings
Str(src, len, tail) == [src |-> src, len |-> len, tail |-> tail]
Empty == Str("", 0, 0)
StrLen(s) == s.len + s.tail
Truthy(s) == StrLen(s) > 0

\* s.substring(0, n)
substring(s, n) ==
  IF StrLen(s) <= n THEN s
  ELSE IF s.len >= n THEN Str(s.src, n, 0)
  ELSE Str(s.src, s.len, n - s.len)

\* s + '...'
AppendDots(s) == Str(s.src, s.len, s.tail + EllipsisLen)

\* text.length > 100 ? text.substring(0, 100) + '...' : text
SimpleSummaryNoDots(text) ==
  IF StrLen(text) > SummaryLimit THEN substring(text, SummaryLimit) ELSE text

SimpleSummary(text) ==
  IF StrLen(text) > SummaryLimit
  THEN AppendDots(substring(text, SummaryLimit))
  ELSE text

\* openai.ts generateSummary: the model's answer, or text.substring(0,100)+'...'
GenerateSummaryResults(text) ==
  {Str("ai", 40, 0), AppendDots(substring(text, SummaryLimit))}

\* openai.ts classifyText: a valid ItemType, NOTE on any error
ClassifyResults == {"NOTE", "TODO"}

\* ---------------------------------------------------------- item store
TextLengths == {SummaryLimit, SummaryLimit + 1}
Url == Str("url", 30, 0)
LinkOfUrl == Str("Link: url", 36, 0)
VisionText == Str("vision", 60, 0)
OcrText == Str("ocr", 25, 0)

NullItem ==
  [text |-> Empty, status |-> "NONE", type |-> "NONE", title |-> Empty,
   summary |-> Empty, sourceUrl |-> Empty, ocrText |-> Empty, media |-> <<>>]

NewItem(type, title, sourceUrl, text, media) ==
  [text |-> text, status |-> "PENDING", type |-> type, title |-> title,
   summary |-> Empty, sourceUrl |-> sourceUrl, ocrText |-> Empty, media |-> media]

\* the id of the next created row; the id of a deleted row is not given again
NextItemId == Cardinality(DOMAIN items \cup eDeleted) + 1

\* ---------------------------------------------------------------- queue
\* a queue entry id that is new on every call
jobIdFresh(itemId) == itemId + 10 * (1 + Cardinality(DOMAIN jobs))

\* jobId: `item-${itemId}`
jobId(itemId) == itemId

\* Per-attempt locals of the handler; reset when an attempt starts.
\*   item: the row read by findUnique; ocr, vision: the two branches of the
\*   join; engine: the Tesseract worker; embed: outcome of the embedding step;
\*   threwAt: the step whose error reached the handler's catch;
\*   storeFault: some prisma call threw in this attempt (caught or not);
\*   linkFailure: how processLinkItem failed (the metadata fetch, or a throw);
\*   embedded: the parts of the text handed to generateEmbedding.
Locals ==
  [pc |-> "idle", item |-> NullItem, ocr |-> "none", vision |-> "none",
   engine |-> "none", joined |-> FALSE, embed |-> "none", threwAt |-> "none",
   storeFault |-> FALSE, linkFailure |-> "none", embedded |-> <<>>]

NewJob(itemId, type, attempts, origin) ==
  [type |-> type, itemId |-> itemId, attempts |-> attempts, origin |-> origin,
   attemptsMade |-> 0, state |-> "waiting", delay |-> 0, l |-> Locals]

\* Queue.add with a jobId: a job whose id already exists is not added again
QueueAdd(q, itemId, type, attempts, origin) ==
  IF jobId(itemId) \in DOMAIN q THEN q
  ELSE [k \in DOMAIN q \cup {jobId(itemId)} |->
          IF k = jobId(itemId) THEN NewJob(itemId, type, attempts, origin) ELSE q[k]]

\* server config/queue.ts: the queue has no defaultJobOptions
queueItemProcessing(q, itemId, type, origin) ==
  QueueAdd(q, itemId, type, DefaultAttempts, origin)

\* worker queue/index.ts: defaultJobOptions { attempts: 3, backoff exponential }
workerQueueItemProcessing(q, itemId, type, origin) ==
  QueueAdd(q, itemId, type, WorkerAttempts, origin)

JobsOf(itemId) == {j \in DOMAIN jobs : jobs[j].itemId = itemId}
Unfinished(j) == jobs[j].state \in {"waiting", "active", "delayed"}

\* ------------------------------------------------------ capture handlers
\* Create the item PENDING, then queue the job; a queue error is logged and
\* swallowed ("Continue anyway").
Capture(item, type) ==
  /\ NextItemId \in ItemIds
  /\ items' = [k \in DOMAIN items \cup {NextItemId} |->
                 IF k = NextItemId THEN item ELSE items[k]]
  /\ \E queued \in BOOLEAN :
       jobs' = IF queued THEN queueItemProcessing(jobs, NextItemId, type, "capture")
               ELSE jobs
  /\ UNCHANGED <<searchVars, vectors, apiKey, requeues, dupAdds>>

captureText ==
  \E n \in TextLengths :
    Capture(NewItem("NOTE", substring(Str("text", n, 0), SummaryLimit), Empty,
                    Str("text", n, 0), <<>>), "text")

captureLink ==
  Capture(NewItem("ARTICLE", Str("Link from domain", 20, 0), Url, Empty, <<>>), "link")

captureFile ==
  \E isImage \in BOOLEAN :
    Capture(NewItem(IF isImage THEN "IMAGE" ELSE "FILE", Str("originalname", 12, 0),
                    Empty, Str("Uploaded file: originalname", 27, 0),
                    <<IF isImage THEN "IMAGE" ELSE "DOCUMENT">>), "file")

\* A further call of queueItemProcessing for an existing item (manual retry),
\* through the server's helper or the worker's.
Requeue ==
  /\ requeues < MaxRequeues
  /\ \E i \in DOMAIN items, type \in {"text", "link", "file"}, viaWorker \in BOOLEAN :
       /\ jobs' = IF viaWorker THEN workerQueueItemProcessing(jobs, i, type, "requeue")
                  ELSE queueItemProcessing(jobs, i, type, "requeue")
       /\ dupAdds' = IF \E j \in JobsOf(i) : Unfinished(j)
                     THEN dupAdds \cup {i} ELSE dupAdds
  /\ requeues' = requeues + 1
  /\ UNCHANGED <<searchVars, items, vectors, apiKey>>

\* ------------------------------------------------- worker: processItemJob
Active == {j \in DOMAIN jobs : jobs[j].state = "active"}
At(j, pc) == j \in DOMAIN jobs /\ jobs[j].state = "active" /\ jobs[j].l.pc = pc

SetItem(i, r) == [items EXCEPT ![i] = r]
SetL(j, l) == [jobs EXCEPT ![j].l = l]

\* an enrichment error that is logged and not propagated
ThrowSwallowed(l, step) ==
  IF step = "enrich"
  THEN [l EXCEPT !.pc = "embed", !.threwAt = step, !.storeFault = TRUE]
  ELSE [l EXCEPT !.pc = "catch", !.threwAt = step, !.storeFault = TRUE]

\* an error reaches the catch block of processItemJob
Throw(l, step) == [l EXCEPT !.pc = "catch", !.threwAt = step, !.storeFault = TRUE]

\* The worker takes a waiting job (index.ts: concurrency 5).
StartJob(j) ==
  /\ jobs[j].state = "waiting"
  /\ Cardinality(Active) < Concurrency
  /\ jobs' = [jobs EXCEPT ![j].state = "active",
                          ![j].l = [Locals EXCEPT !.pc = "setProcessing"]]
  /\ UNCHANGED <<searchVars, items, vectors, apiKey, requeues, dupAdds>>

\* prisma.item.update({ status: PROCESSING }); throws on a store fault and
\* when the row does not exist
SetProcessing(j) ==
  /\ At(j, "setProcessing")
  /\ LET i == jobs[j].itemId  l == jobs[j].l IN
     \E ok \in BOOLEAN :
       IF ok /\ i \in DOMAIN items
       THEN /\ items' = SetItem(i, [items[i] EXCEPT !.status = "PROCESSING"])
            /\ jobs' = SetL(j, [l EXCEPT !.pc = "findUnique"])
       ELSE /\ items' = items
            /\ jobs' = SetL(j, Throw(l, IF i \in DOMAIN items THEN "setProcessing"
                                        ELSE "notFound"))
  /\ UNCHANGED <<searchVars, vectors, apiKey, requeues, dupAdds>>

\* a dispatch after which a job without a matching branch goes straight to
\* the PROCESSED update
DispatchPastEmbedding(type, item) ==
  IF type = "text" /\ Truthy(item.text) THEN "text"
  ELSE IF type = "link" /\ Truthy(item.sourceUrl) THEN "link"
  ELSE IF type = "file" THEN "file"
  ELSE "markProcessed"

\* a dispatch on the payload type alone
DispatchByKind(type, item) ==
  IF type = "text" THEN "text" ELSE IF type = "link" THEN "link" ELSE "file"

\* "Process based on type": the branch taken for payload type and fetched row
Dispatch(type, item) ==
  IF type = "text" /\ Truthy(item.text) THEN "text"
  ELSE IF type = "link" /\ Truthy(item.sourceUrl) THEN "link"
  ELSE IF type = "file" THEN "file"
  ELSE "embed"

\* prisma.item.findUnique({ include: content, media }); null throws
FindUnique(j) ==
  /\ At(j, "findUnique")
  /\ LET i == jobs[j].itemId  l == jobs[j].l IN
     \E ok \in BOOLEAN :
       IF ok /\ i \in DOMAIN items
       THEN jobs' = SetL(j, [l EXCEPT !.item = items[i],
                                      !.pc = Dispatch(jobs[j].type, items[i])])
       ELSE jobs' = SetL(j, Throw(l, IF i \in DOMAIN items THEN "findUnique"
                                   ELSE "notFound"))
  /\ UNCHANGED <<searchVars, items, vectors, apiKey, requeues, dupAdds>>

\* processTextItem: truncation summary without a provider; with one, the
\* analysis, and the truncation summary if that update throws.
processTextItem(j) ==
  /\ At(j, "text")
  /\ LET i == jobs[j].itemId  l == jobs[j].l  text == jobs[j].l.item.text IN
     \E ok1 \in BOOLEAN, ok2 \in BOOLEAN,
        summary \in GenerateSummaryResults(text), type \in ClassifyResults :
       IF ~apiKey
       THEN IF ok1
            THEN /\ items' = SetItem(i, [items[i] EXCEPT !.summary = SimpleSummary(text)])
                 /\ jobs' = SetL(j, [l EXCEPT !.pc = "embed"])
            ELSE /\ items' = items
                 /\ jobs' = SetL(j, Throw(l, "enrich"))
       ELSE IF ok1
            THEN /\ items' = SetItem(i, [items[i] EXCEPT !.summary = summary,
                                                         !.type = type])
                 /\ jobs' = SetL(j, [l EXCEPT !.pc = "embed"])
            ELSE IF ok2
            THEN /\ items' = SetItem(i, [items[i] EXCEPT !.summary = SimpleSummary(text)])
                 /\ jobs' = SetL(j, [l EXCEPT !.pc = "embed", !.storeFault = TRUE])
            ELSE /\ items' = items
                 /\ jobs' = SetL(j, Throw(l, "enrich"))
  /\ UNCHANGED <<searchVars, vectors, apiKey, requeues, dupAdds>>

PageTitle == Str("page title", 18, 0)
PageDescription == Str("page description", 50, 0)
PageContent == Str("page content", 400, 0)

\* metadata.ts fetchLinkMetadata: never throws; { url, title: url } on error
MetadataOnError == [title |-> Url, description |-> Empty, image |-> FALSE]

LinkMetadataResults ==
  {MetadataOnError} \cup
  {[title |-> PageTitle, description |-> d, image |-> im] :
     d \in {Empty, PageDescription}, im \in BOOLEAN}

Or3(a, b, c) == IF Truthy(a) THEN a ELSE IF Truthy(b) THEN b ELSE c

\* processLinkItem: metadata, optional generated summary, update, preview
\* image; any throw falls back to the URL as title and 'Link: <url>' as summary.
processLinkItem(j) ==
  /\ At(j, "link")
  /\ LET i == jobs[j].itemId  l == jobs[j].l IN
     \E metadata \in LinkMetadataResults,
        generated \in GenerateSummaryResults(PageContent) \cup {Empty},
        ok1 \in BOOLEAN, okMedia \in BOOLEAN, ok2 \in BOOLEAN :
       LET summary == IF ~Truthy(metadata.description) /\ apiKey
                      THEN generated ELSE metadata.description
       IN
       IF ok1
       THEN /\ items' = SetItem(i,
                 [items[i] EXCEPT
                    !.title = metadata.title,
                    !.summary = Or3(summary, metadata.description, metadata.title),
                    !.media = IF metadata.image /\ okMedia
                              THEN Append(@, "IMAGE") ELSE @])
            /\ jobs' = SetL(j, [l EXCEPT !.pc = "embed",
                                         !.storeFault = @ \/ (metadata.image /\ ~okMedia),
                                         !.linkFailure = IF metadata = MetadataOnError
                                                         THEN "metadata" ELSE "none"])
       ELSE IF ok2
       THEN /\ items' = SetItem(i, [items[i] EXCEPT !.title = Url,
                                                    !.summary = LinkOfUrl])
            /\ jobs' = SetL(j, [l EXCEPT !.pc = "embed", !.storeFault = TRUE,
                                         !.linkFailure = "threw"])
       ELSE /\ items' = items
            /\ jobs' = SetL(j, [Throw(l, "enrich") EXCEPT !.linkFailure = "threw"])
  /\ UNCHANGED <<searchVars, vectors, apiKey, requeues, dupAdds>>

\* ---------------------------------------------------- processFileItem
Placeholder == Str("Image file: title", 24, 0)

\* item.type === 'IMAGE' || item.media?.some(m => m.mediaType === 'IMAGE')
isImage(item) ==
  item.type = "IMAGE" \/ \E k \in 1..Len(item.media) : item.media[k] = "IMAGE"

\* Image download, validation and createWorker; any failure there is caught
\* by the OCR try/catch and the file is left as it is.
FileStart(j) ==
  /\ At(j, "file")
  /\ LET l == jobs[j].l IN
     IF isImage(l.item) /\ Len(l.item.media) > 0
     THEN \E ready \in BOOLEAN :
            jobs' = SetL(j, IF ready
                            THEN [l EXCEPT !.pc = "allSettled", !.ocr = "pending",
                                           !.vision = "pending", !.engine = "created"]
                            ELSE [l EXCEPT !.pc = "embed"])
     ELSE jobs' = SetL(j, [l EXCEPT !.pc = "embed"])
  /\ UNCHANGED <<searchVars, items, vectors, apiKey, requeues, dupAdds>>

\* worker.recognize(...) settles: rejected, or fulfilled with or without text
OcrSettle(j) ==
  /\ At(j, "allSettled") /\ jobs[j].l.ocr = "pending"
  /\ \E r \in {"rejected", "empty", "text"} :
       jobs' = SetL(j, [jobs[j].l EXCEPT !.ocr = r])
  /\ UNCHANGED <<searchVars, items, vectors, apiKey, requeues, dupAdds>>

\* the describeImage branch settles; its own try/catch turns an error into ''
VisionSettle(j) ==
  /\ At(j, "allSettled") /\ jobs[j].l.vision = "pending"
  /\ \E r \in {"empty", "text"} :
       jobs' = SetL(j, [jobs[j].l EXCEPT !.vision = r])
  /\ UNCHANGED <<searchVars, items, vectors, apiKey, requeues, dupAdds>>

\* Promise.all would reject as soon as one branch rejects
PromiseAll(ocr, vision) ==
  IF ocr = "rejected" THEN "throw"
  ELSE IF ocr = "pending" \/ vision = "pending" THEN "wait"
  ELSE "settled"

\* await Promise.allSettled([...]): resumes when both branches have settled
PromiseAllSettled(ocr, vision) ==
  IF ocr = "pending" \/ vision = "pending" THEN "wait" ELSE "settled"

\* worker.terminate() as the last statement of the try block: skipped when
\* a statement before it throws
terminateAtEnd(engine, threw) ==
  IF engine = "created" /\ ~threw THEN "terminated" ELSE engine

\* finally { if (worker) await worker.terminate() }: runs whether or not the
\* try block threw
terminateInFinally(engine, threw) ==
  IF engine = "created" THEN "terminated" ELSE engine

\* The code after the join: choose Content.text / ocrText / summary, write
\* them, terminate the Tesseract worker (finally).  A throwing write inside is
\* caught by processFileItem; the upsert of the OCR branch and the summary
\* update without a provider are outside the inner try/catch blocks and
\* leave the try block by their exception.
FileJoin(j) ==
  /\ At(j, "allSettled")
  /\ PromiseAllSettled(jobs[j].l.ocr, jobs[j].l.vision) # "wait"
  /\ LET i == jobs[j].itemId
         l == jobs[j].l
         text == IF l.ocr = "text" THEN OcrText ELSE Empty
         visionDescription == IF l.vision = "text" THEN VisionText ELSE Empty
         done == [l EXCEPT !.pc = "embed", !.joined = TRUE]
     IN
     IF PromiseAllSettled(l.ocr, l.vision) = "throw"
     THEN /\ items' = items
          /\ jobs' = SetL(j, [done EXCEPT !.engine = terminateInFinally(@, TRUE)])
     ELSE
     \E ok1 \in BOOLEAN, ok2 \in BOOLEAN,
        summary \in GenerateSummaryResults(Or3(visionDescription, text, text)) :
       LET afterUpsert ==
             IF Truthy(text)
             THEN [items[i] EXCEPT !.ocrText = text,
                                   !.text = Or3(visionDescription, text, Placeholder)]
             ELSE [items[i] EXCEPT !.text = visionDescription]
           newSummary ==
             IF Truthy(text) /\ apiKey THEN summary ELSE visionDescription
           writes == Truthy(text) \/ Truthy(visionDescription)
           writesSummary == (Truthy(text) /\ apiKey) \/ Truthy(visionDescription)
           threw == Truthy(text) /\ (~ok1 \/ (~apiKey /\ writesSummary /\ ~ok2))
       IN
       /\ items' = IF ~writes \/ ~ok1 THEN items
                   ELSE IF writesSummary /\ ok2
                   THEN SetItem(i, [afterUpsert EXCEPT !.summary = newSummary])
                   ELSE SetItem(i, afterUpsert)
       /\ jobs' = SetL(j, [done EXCEPT
                              !.engine = terminateInFinally(@, threw),
                              !.storeFault =
                                @ \/ (writes /\ ~ok1) \/ (writes /\ ok1 /\ writesSummary /\ ~ok2)])
  /\ UNCHANGED <<searchVars, vectors, apiKey, requeues, dupAdds>>

\* ------------------------------------------------------- embedding step
\* propagation of an embedding failure with the inner try/catch removed
embeddingRethrown(result) ==
  IF result = "failed" THEN "catch" ELSE "markProcessed"

\* processItemJob's try/catch around generateAndStoreEmbedding: whatever the
\* outcome, the handler continues with the PROCESSED update
embeddingCaught(result) == "markProcessed"

\* the parts of textToEmbed that come from a row: type, title, summary,
\* content text, OCR text
textToEmbed(item) == <<item.type, item.title, item.summary, item.text, item.ocrText>>

\* generateAndStoreEmbedding(itemId, item): skipped without a provider;
\* otherwise the text is built from `item`, the row handed over by
\* processItemJob, then the provider call and the POST to /api/embeddings,
\* either of which may fail.
generateAndStoreEmbedding(j) ==
  /\ At(j, "embed")
  /\ LET i == jobs[j].itemId  l == jobs[j].l IN
     \E result \in IF apiKey THEN {"stored", "failed"} ELSE {"skipped"} :
       /\ vectors' = IF result = "stored" THEN vectors \cup {i} ELSE vectors
       /\ jobs' = SetL(j, [l EXCEPT !.embed = result,
                                    !.embedded = IF apiKey THEN textToEmbed(l.item) ELSE @,
                                    !.pc = embeddingCaught(result),
                                    !.threwAt = IF embeddingCaught(result) = "catch"
                                                THEN "embed" ELSE @])
  /\ UNCHANGED <<searchVars, items, apiKey, requeues, dupAdds>>

\* ---------------------------------------------------- end of the handler
\* prisma.item.update({ status: PROCESSED }); the handler returns and the
\* queue marks the job completed.
MarkProcessed(j) ==
  /\ At(j, "markProcessed")
  /\ LET i == jobs[j].itemId  l == jobs[j].l IN
     \E ok \in BOOLEAN :
       IF ok /\ i \in DOMAIN items
       THEN /\ items' = SetItem(i, [items[i] EXCEPT !.status = "PROCESSED"])
            /\ jobs' = [jobs EXCEPT ![j].state = "completed",
                                    ![j].l = [l EXCEPT !.pc = "idle"]]
       ELSE /\ items' = items
            /\ jobs' = SetL(j, Throw(l, "markProcessed"))
  /\ UNCHANGED <<searchVars, vectors, apiKey, requeues, dupAdds>>

Pow2(n) == IF n <= 0 THEN 1 ELSE IF n = 1 THEN 2 ELSE 4

\* BullMQ on a throwing handler: retry after the backoff while attempts are
\* left, else move the job to failed.
MoveToFailed(job) ==
  IF job.attemptsMade + 1 < job.attempts
  THEN [job EXCEPT !.attemptsMade = @ + 1, !.state = "delayed",
                   !.delay = BackoffDelay * Pow2(job.attemptsMade),
                   !.l = [job.l EXCEPT !.pc = "idle"]]
  ELSE [job EXCEPT !.attemptsMade = @ + 1, !.state = "failed",
                   !.l = [job.l EXCEPT !.pc = "idle"]]

\* catch (error): prisma.item.update({ status: FAILED }); throw
Catch(j) ==
  /\ At(j, "catch")
  /\ LET i == jobs[j].itemId IN
     \E ok \in BOOLEAN :
       /\ items' = IF ok /\ i \in DOMAIN items
                   THEN SetItem(i, [items[i] EXCEPT !.status = "FAILED"])
                   ELSE items
       /\ jobs' = [jobs EXCEPT ![j] = MoveToFailed(jobs[j])]
  /\ UNCHANGED <<searchVars, vectors, apiKey, requeues, dupAdds>>

\* the backoff delay of a delayed job has elapsed
BackoffElapsed(j) ==
  /\ jobs[j].state = "delayed"
  /\ jobs' = [jobs EXCEPT ![j].state = "waiting", ![j].delay = 0]
  /\ UNCHANGED <<searchVars, items, vectors, apiKey, requeues, dupAdds>>

\* The item's row is deleted in the database (its own DELETE, or its user's
\* through items_user_id_fkey) between the job's enqueueing and its
\* processing: while no attempt runs, or between the PROCESSING update and
\* the fetch of the row.
deleteItem ==
  /\ \E i \in DOMAIN items :
       /\ \A j \in JobsOf(i) : jobs[j].state # "active" \/ jobs[j].l.pc = "findUnique"
       /\ items' = [k \in DOMAIN items \ {i} |-> items[k]]
       /\ eDeleted' = eDeleted \cup {i}
  /\ UNCHANGED <<jobs, vectors, apiKey, requeues, dupAdds, queryVars, vectorVars,
                 interpretVars, providerVars, eItems, eRows, eReqs, eLog>>

\* =============================================================== search
\* The store as one request sees it.  For each item: its owner, its type,
\* whether it contains every word of the keyword query (cleanedQuery ||
\* query), and the cosine score of its vector against the query embedding
\* (0: the item has no vector).  Ids are in creation order.
SearchIds == 1..MaxSearchItems
SimScores == {0, 20, 60, 90}
SessionUser == "me"

SearchItems == [type : {"IMAGE", "NOTE"}, userId : {"me", "other"},
                kw : BOOLEAN, sim : SimScores]

\* the same rows with their status column; an item has no vector or one
\* that scores above minScore
SearchStatuses == {"PROCESSED", "FAILED"}
StatusItems == [status : SearchStatuses, type : {"IMAGE", "NOTE"},
                userId : {"me", "other"}, kw : BOOLEAN, sim : {0, 60}]

\* extractTypeFilter's result: the detected type and whether the cleaned
\* query is empty (an empty cleaned query needs a detected type or a query
\* made of stop words only)
Queries == [typeFilter : {"NONE", "IMAGE", "NOTE"}, cleanedEmpty : BOOLEAN,
            limit : 1..MaxLimit]

Min(a, b) == IF a < b THEN a ELSE b
Take(seq, n) == SubSeq(seq, 1, Min(n, Len(seq)))

\* the elements of S as a sequence, by decreasing key
RECURSIVE SortByKey(_, _)
SortByKey(S, key) ==
  IF S = {} THEN <<>>
  ELSE LET best == CHOOSE x \in S : \A y \in S \ {x} : key[x] > key[y]
       IN <<best>> \o SortByKey(S \ {best}, key)

\* results.sort((a, b) => b.score - a.score): by score, ties in the Map's
\* insertion order
ByScore(store, S) ==
  SortByKey(S, [i \in S |-> store[i].sim * (MaxSearchItems + 1) - i])

\* orderBy: { createdAt: 'desc' }
ByCreatedDesc(S) == SortByKey(S, [i \in S |-> i])

\* vector-db.ts searchSimilar(queryEmbedding, limit, minScore): the top
\* limit*3 of the index, those at or above minScore, the top `limit` of them;
\* when none reaches minScore, the top `limit` anyway.
searchSimilar(store, limit, minScore) ==
  LET results == Take(ByScore(store, {i \in DOMAIN store : store[i].sim > 0}), limit * 3)
      filtered == SelectSeq(results, LAMBDA i : store[i].sim >= minScore)
  IN IF Len(results) = 0 THEN <<>>
     ELSE IF Len(filtered) = 0 THEN Take(results, limit)
     ELSE Take(filtered, limit)

TypeOk(store, q, i) == q.typeFilter = "NONE" \/ store[i].type = q.typeFilter

\* a keyword findMany restricted to processed items
KeywordMatchesProcessed(store, q) ==
  {i \in DOMAIN store :
     /\ store[i].userId = SessionUser /\ TypeOk(store, q, i) /\ store[i].kw
     /\ store[i].status = "PROCESSED"}

\* the keyword findMany: the user's items, of the detected type if any, that
\* contain every word of cleanedQuery || query
KeywordMatches(store, q) ==
  {i \in DOMAIN store :
     store[i].userId = SessionUser /\ TypeOk(store, q, i) /\ store[i].kw}

\* the direct type search: the user's items of the detected type, filtered by
\* the words of the cleaned query when there are any
TypeMatches(store, q) ==
  {i \in DOMAIN store :
     /\ store[i].userId = SessionUser /\ store[i].type = q.typeFilter
     /\ q.cleanedEmpty \/ store[i].kw}

Scored(seq, score) == [k \in 1..Len(seq) |-> [itemId |-> seq[k], relevanceScore |-> score]]

\* the search with `userId` left out of itemsWhere: every candidate of the
\* index of the detected type is returned
semanticSearchUnscoped(store, q) ==
  LET similarItems == searchSimilar(store, q.limit * 2, MinScore) IN
  IF Len(similarItems) = 0
  THEN Scored(Take(ByCreatedDesc(KeywordMatches(store, q)), q.limit), KeywordScore)
  ELSE LET kept == SelectSeq(similarItems, LAMBDA i : TypeOk(store, q, i))
           results == [k \in 1..Len(kept) |->
                         [itemId |-> kept[k], relevanceScore |-> store[kept[k]].sim]]
       IN IF q.typeFilter # "NONE" /\ Len(results) = 0
          THEN Scored(Take(ByCreatedDesc(TypeMatches(store, q)), q.limit), TypeSearchScore)
          ELSE results

\* semanticSearch: semantic results when the vector search returns any
\* (keyword search only when it returns none), the direct type search when a
\* type was detected and the filters removed every semantic result.
semanticSearchResults(store, q) ==
  LET similarItems == searchSimilar(store, q.limit * 2, MinScore) IN
  IF Len(similarItems) = 0
  THEN Scored(Take(ByCreatedDesc(KeywordMatches(store, q)), q.limit), KeywordScore)
  ELSE LET kept == SelectSeq(similarItems,
                     LAMBDA i : store[i].userId = SessionUser /\ TypeOk(store, q, i))
           results == [k \in 1..Len(kept) |->
                         [itemId |-> kept[k], relevanceScore |-> store[kept[k]].sim]]
       IN IF q.typeFilter # "NONE" /\ Len(results) = 0
          THEN Scored(Take(ByCreatedDesc(TypeMatches(store, q)), q.limit), TypeSearchScore)
          ELSE results

semanticSearch ==
  /\ ~sDone
  /\ sResults' = semanticSearchResults(sStore, sQuery)
  /\ sDone' = TRUE
  /\ UNCHANGED <<pipelineVars, sStore, sQuery, vectorVars, interpretVars, providerVars,
                 storeVars>>

\* ========================================================= vector index
\* Numbers.  A JavaScript number is a binary floating-point value; it is the
\* pair <<m, e>> standing for m * 2^e, with a significand of Precision bits
\* (53 in the code).  Every operation rounds to nearest, ties to even.
Zero == <<0, 0>>
One == <<2^(Precision - 1), 1 - Precision>>
Abs(n) == IF n < 0 THEN -n ELSE n
BitLen(M) == CHOOSE k \in 0..30 : M < 2^k /\ (k = 0 \/ 2^(k - 1) <= M)

\* the number nearest to M * 2^E; sticky: bits below M were not all zero
Round(M, E, sticky) ==
  IF M = 0 THEN Zero
  ELSE LET k == BitLen(M) - Precision IN
       IF k <= 0 THEN <<M * 2^(-k), E + k>>
       ELSE LET q == M \div 2^k
                r == M % 2^k
                half == 2^(k - 1)
                up == r > half \/ (r = half /\ (sticky \/ q % 2 = 1))
                q1 == IF up THEN q + 1 ELSE q
            IN IF q1 = 2^Precision THEN <<2^(Precision - 1), E + k + 1>>
               ELSE <<q1, E + k>>

RECURSIVE ISqrtIn(_, _, _)
ISqrtIn(x, lo, hi) ==
  IF hi - lo <= 1 THEN lo
  ELSE LET mid == (lo + hi) \div 2
       IN IF mid * mid <= x THEN ISqrtIn(x, mid, hi) ELSE ISqrtIn(x, lo, mid)

\* Math.sqrt of a non-negative integer value, correctly rounded
Sqrt(n) ==
  IF n = 0 THEN Zero
  ELSE LET t == CHOOSE t \in 0..14 : n * 4^t >= 2^28
           root == ISqrtIn(n * 4^t, 0, 2^15)
       IN Round(root, -t, root * root # n * 4^t)

\* x * y for positive numbers
Mul(x, y) == Round(x[1] * y[1], x[2] + y[2], FALSE)

\* n / y for an integer value n and a positive number y
Div(n, y) ==
  IF n = 0 THEN Zero
  ELSE LET s == CHOOSE s \in 0..30 : Abs(n) * 2^s >= 2^29
           q == (Abs(n) * 2^s) \div y[1]
           mag == Round(q, -s - y[2], (Abs(n) * 2^s) % y[1] # 0)
       IN <<IF n < 0 THEN -mag[1] ELSE mag[1], mag[2]>>

\* an integer that orders numbers as their values are ordered
Key(x) ==
  IF x[1] = 0 THEN 0
  ELSE (IF x[1] < 0 THEN -1 ELSE 1) * ((x[2] + 64) * 2^Precision + Abs(x[1]))

\* Vectors.  The two embedding models return vectors of different lengths.
VecItemIds == 1..MaxVecItems
ModelNames == {"nomic-embed-text", "text-embedding-3-small"}
modelDim(modelName) == IF modelName = "nomic-embed-text" THEN 1 ELSE 2
\* the entries of an embedding
Components == {0, 1}
VectorsOfDim(d) == [1..d -> Components]
AllVectors == UNION {VectorsOfDim(modelDim(m)) : m \in ModelNames}

RECURSIVE SumTo(_, _)
SumTo(f, n) == IF n = 0 THEN 0 ELSE f[n] + SumTo(f, n - 1)

\* the outcome of a call that threw: no value
Thrown == <<>>

\* cosineSimilarity(a, b): throws on different lengths, 0 when a norm is 0
cosineSimilarity(a, b) ==
  IF Len(a) # Len(b) THEN Thrown
  ELSE LET dotProduct == SumTo([i \in 1..Len(a) |-> a[i] * b[i]], Len(a))
           normA == Sqrt(SumTo([i \in 1..Len(a) |-> a[i] * a[i]], Len(a)))
           normB == Sqrt(SumTo([i \in 1..Len(b) |-> b[i] * b[i]], Len(b)))
       IN IF normA = Zero \/ normB = Zero THEN Zero
          ELSE Div(dotProduct, Mul(normA, normB))

\* a write that adds an entry whether or not the key exists
appendRecord(idx, record) == Append(idx, record)

\* this.vectors.set(record.id, record): an existing key keeps its place
upsert(idx, record) ==
  IF \E k \in 1..Len(idx) : idx[k].itemId = record.itemId
  THEN [k \in 1..Len(idx) |->
          IF idx[k].itemId = record.itemId THEN record ELSE idx[k]]
  ELSE Append(idx, record)

\* this.vectors.delete(id)
delete(idx, itemId) == SelectSeq(idx, LAMBDA r : r.itemId # itemId)

\* the list left in the order in which it was built
unsorted(results) == results

\* results.sort((a, b) => b.score - a.score): stable, highest score first
sortByScore(results) ==
  LET n == Len(results)
      order == SortByKey(1..n, [k \in 1..n |-> Key(results[k].score) * (n + 1) - k])
  IN [k \in 1..n |-> results[order[k]]]

\* InMemoryVectorStore.search(queryVector, limit): a record whose similarity
\* computation throws is logged and left out
search(idx, queryVector, limit) ==
  LET scored == SelectSeq(idx, LAMBDA r : cosineSimilarity(queryVector, r.vector) # Thrown)
      results == [k \in 1..Len(scored) |->
                    [itemId |-> scored[k].itemId,
                     score |-> cosineSimilarity(queryVector, scored[k].vector)]]
  IN Take(sortByScore(results), limit)

\* generateEmbedding with the model of the active backend, then
\* storeEmbedding(itemId, embedding): vectorStore.upsert under id vec-<itemId>
storeEmbedding ==
  /\ ~vDone
  /\ \E itemId \in VecItemIds, modelName \in ModelNames :
       \E embedding \in VectorsOfDim(modelDim(modelName)) :
         index' = upsert(index, [itemId |-> itemId, vector |-> embedding])
  /\ UNCHANGED <<pipelineVars, queryVars, interpretVars, providerVars, storeVars,
                 vQuery, vResults, vThrew, vDone>>

\* deleteEmbedding(itemId)
deleteEmbedding ==
  /\ ~vDone
  /\ \E itemId \in VecItemIds : index' = delete(index, itemId)
  /\ UNCHANGED <<pipelineVars, queryVars, interpretVars, providerVars, storeVars,
                 vQuery, vResults, vThrew, vDone>>

\* vectorStore.search(queryVector, limit); the call reads the index only, so
\* the index is followed up to the call
vectorStoreSearch ==
  /\ ~vDone
  /\ \E queryVector \in AllVectors, limit \in 1..MaxK :
       /\ vQuery' = <<queryVector, limit>>
       /\ vResults' = search(index, queryVector, limit)
  /\ vThrew' = FALSE
  /\ vDone' = TRUE
  /\ UNCHANGED <<pipelineVars, queryVars, interpretVars, providerVars, storeVars, index>>

\* ===================================================== query interpreter
\* A query is a sequence of lower-case words of letters; a word, a keyword
\* and the query string are sequences of characters.
Categories == <<"IMAGE", "ARTICLE", "NOTE", "FILE", "TODO">>

\* the strings whose occurrence in lowerQuery selects a category
DetectKeywords(cat) ==
  IF cat = "IMAGE" THEN
    {<<"i", "m", "a", "g", "e">>,
     <<"p", "h", "o", "t", "o">>,
     <<"p", "i", "c", "t", "u", "r", "e">>,
     <<"s", "c", "r", "e", "e", "n", "s", "h", "o", "t">>,
     <<"u", "p", "l", "o", "a", "d", "e", "d", " ", "i", "m", "a", "g", "e">>,
     <<"i", "m", "a", "g", "e", "s", " ", "i">>,
     <<"i", "m", "a", "g", "e", "s", " ", "w", "i", "t", "h">>,
     <<"i", "m", "a", "g", "e", " ", "w", "i", "t", "h">>,
     <<"p", "h", "o", "t", "o", " ", "w", "i", "t", "h">>,
     <<"p", "i", "c", "t", "u", "r", "e", " ", "w", "i", "t", "h">>}
  ELSE IF cat = "ARTICLE" THEN
    {<<"l", "i", "n", "k">>,
     <<"u", "r", "l">>,
     <<"a", "r", "t", "i", "c", "l", "e">>,
     <<"w", "e", "b", "s", "i", "t", "e">>,
     <<"p", "a", "g", "e">>,
     <<"h", "t", "t", "p">>}
  ELSE IF cat = "NOTE" THEN
    {<<"n", "o", "t", "e">>,
     <<"t", "e", "x", "t">>,
     <<"m", "e", "m", "o">>,
     <<"t", "h", "o", "u", "g", "h", "t">>}
  ELSE IF cat = "FILE" THEN
    {<<"f", "i", "l", "e">>,
     <<"d", "o", "c", "u", "m", "e", "n", "t">>,
     <<"p", "d", "f">>,
     <<"u", "p", "l", "o", "a", "d", "e", "d", " ", "f", "i", "l", "e">>}
  ELSE
    {<<"t", "o", "d", "o">>,
     <<"t", "a", "s", "k">>,
     <<"r", "e", "m", "i", "n", "d", "e", "r">>,
     <<"c", "h", "e", "c", "k", "l", "i", "s", "t">>}

\* the words w of the category's replace pattern \\b(w s?|...)\\b
Stems(cat) ==
  IF cat = "IMAGE" THEN
    {<<"i", "m", "a", "g", "e">>,
     <<"p", "h", "o", "t", "o">>,
     <<"p", "i", "c", "t", "u", "r", "e">>,
     <<"s", "c", "r", "e", "e", "n", "s", "h", "o", "t">>}
  ELSE IF cat = "ARTICLE" THEN
    {<<"l", "i", "n", "k">>,
     <<"u", "r", "l">>,
     <<"a", "r", "t", "i", "c", "l", "e">>,
     <<"w", "e", "b", "s", "i", "t", "e">>,
     <<"p", "a", "g", "e">>}
  ELSE IF cat = "NOTE" THEN
    {<<"n", "o", "t", "e">>,
     <<"t", "e", "x", "t">>,
     <<"m", "e", "m", "o">>,
     <<"t", "h", "o", "u", "g", "h", "t">>}
  ELSE IF cat = "FILE" THEN
    {<<"f", "i", "l", "e">>,
     <<"d", "o", "c", "u", "m", "e", "n", "t">>,
     <<"p", "d", "f">>}
  ELSE
    {<<"t", "o", "d", "o">>,
     <<"t", "a", "s", "k">>,
     <<"r", "e", "m", "i", "n", "d", "e", "r">>,
     <<"c", "h", "e", "c", "k", "l", "i", "s", "t">>}

\* the ARTICLE pattern's alternative without an optional s
Http == <<"h", "t", "t", "p">>

\* the single words of the stop-word pattern
StopWords ==
  {<<"a", "b", "o", "u", "t">>,
   <<"w", "i", "t", "h">>,
   <<"c", "o", "n", "t", "a", "i", "n", "i", "n", "g">>,
   <<"t", "h", "a", "t">>,
   <<"w", "h", "i", "c", "h">>,
   <<"r", "e", "g", "a", "r", "d", "i", "n", "g">>,
   <<"c", "o", "n", "c", "e", "r", "n", "i", "n", "g">>,
   <<"h", "a", "v", "i", "n", "g">>,
   <<"s", "h", "o", "w", "i", "n", "g">>,
   <<"d", "i", "s", "p", "l", "a", "y", "i", "n", "g">>}

Vocabulary ==
  {<<"i", "m", "a", "g", "e", "s">>,
   <<"w", "i", "t", "h">>,
   <<"d", "o", "g">>,
   <<"n", "o", "t", "e", "s">>,
   <<"l", "i", "n", "k", "s">>,
   <<"h", "o", "m", "e", "p", "a", "g", "e">>}

QueryWords == UNION {[1..n -> Vocabulary] : n \in 1..MaxWords}

\* the query string: its words separated by one space
RECURSIVE Joined(_)
Joined(words) ==
  IF Len(words) = 0 THEN <<>>
  ELSE IF Len(words) = 1 THEN words[1]
  ELSE words[1] \o <<" ">> \o Joined(Tail(words))

\* String.includes
includes(str, sub) ==
  \E i \in 1..(Len(str) - Len(sub) + 1) : SubSeq(str, i, i + Len(sub) - 1) = sub

\* the whole word matches the category's pattern between word boundaries
MatchesPattern(word, cat) ==
  \/ \E w \in Stems(cat) : word = w \/ word = w \o <<"s">>
  \/ cat = "ARTICLE" /\ word = Http

\* the chain read from its last branch: the last category one of whose
\* strings occurs
DetectLast(lowerQuery, n) ==
  LET hit == {k \in n..Len(Categories) :
                \E kw \in DetectKeywords(Categories[k]) : includes(lowerQuery, kw)}
  IN IF hit = {} THEN "NONE"
     ELSE Categories[CHOOSE k \in hit : \A m \in hit : k >= m]

\* the else-if chain: the first category one of whose strings occurs
DetectFrom(lowerQuery, n) ==
  LET hit == {k \in n..Len(Categories) :
                \E kw \in DetectKeywords(Categories[k]) : includes(lowerQuery, kw)}
  IN IF hit = {} THEN "NONE"
     ELSE Categories[CHOOSE k \in hit : \A m \in hit : k <= m]

\* extractTypeFilter(query): the detected type, and the query without the
\* words the category's pattern matches and without the stop words,
\* whitespace normalised.  The two-word alternatives of the patterns start
\* with a word that an earlier alternative or the stop-word pattern has
\* already removed, or with a word outside the vocabulary.
extractTypeFilter(query) ==
  LET detectedType == DetectFrom(Joined(query), 1)
      withoutKind == SelectSeq(query, LAMBDA w : ~MatchesPattern(w, detectedType))
      cleanedQuery == SelectSeq(withoutKind, LAMBDA w : w \notin StopWords)
  IN <<detectedType, cleanedQuery>>

\* one call of extractTypeFilter
interpret ==
  /\ ~iDone
  /\ iResult' = extractTypeFilter(iQuery)
  /\ iDone' = TRUE
  /\ UNCHANGED <<pipelineVars, queryVars, vectorVars, providerVars, storeVars, iQuery>>

\* ==================================================== keyword conditions
\* The where clauses of the keyword fallback and of the direct type search,
\* on rows whose title, summary, content text and OCR text are strings of
\* characters (a null column is the empty string).
UpperCase == <<"C", "A", "T", "D", "O", "G">>
LowerCase == <<"c", "a", "t", "d", "o", "g">>

\* mode: 'insensitive': both sides compared in one case
toLowerCase(str) ==
  [k \in 1..Len(str) |->
     IF \E n \in 1..Len(UpperCase) : UpperCase[n] = str[k]
     THEN LowerCase[CHOOSE n \in 1..Len(UpperCase) : UpperCase[n] = str[k]]
     ELSE str[k]]

\* { contains: word, mode: 'insensitive' }
contains(field, word) == includes(toLowerCase(field), toLowerCase(word))

\* the OR over title, summary, content.text and content.ocrText for one word
orConditions(item, word) ==
  \/ contains(item.title, word)
  \/ contains(item.summary, word)
  \/ contains(item.text, word)
  \/ contains(item.ocrText, word)

\* a where clause satisfied by one word of the query
anyCondition(item, searchWords) ==
  \E k \in 1..Len(searchWords) : orConditions(item, searchWords[k])

\* keywordWhere.AND / typeSearchWhere.AND: one OR per word of the query
andConditions(item, searchWords) ==
  \A k \in 1..Len(searchWords) : orConditions(item, searchWords[k])

\* (cleanedQuery || query).split(/\s+/)
searchWordsOf(query, cleanedQuery) ==
  IF Len(cleanedQuery) > 0 THEN cleanedQuery ELSE query

\* a row has no vector, or one that scores 0.9 against the query
KeywordItems ==
  [text : {<<>>, <<"h", "o", "t", "d", "o", "g">>},
   type : {"IMAGE", "NOTE"},
   title : {<<"D", "o", "g">>, <<"n", "o", "t", "e", "s">>},
   summary : {<<>>, <<"c", "a", "t">>},
   ocrText : {<<>>, <<"C", "A", "T", " ", "D", "O", "G">>},
   userId : {"me", "other"},
   sim : {0, 90}]

\* the queries of the requests
KeywordQueries ==
  {<<<<"d", "o", "g">>>>,
   <<<<"D", "O", "G">>, <<"c", "a", "t">>>>,
   <<<<"c", "a", "t">>, <<"d", "o", "g">>>>,
   <<<<"n", "o", "t", "e", "s">>>>,
   <<<<"n", "o", "t", "e", "s">>, <<"d", "o", "g">>>>,
   <<<<"i", "m", "a", "g", "e", "s">>, <<"w", "i", "t", "h">>, <<"d", "o", "g">>>>,
   <<<<"w", "i", "t", "h">>>>}

\* the rows as the search paths see them: whether a row satisfies the AND of
\* the word conditions
WithConditions(store, searchWords) ==
  [i \in DOMAIN store |->
     [type |-> store[i].type, userId |-> store[i].userId,
      kw |-> andConditions(store[i], searchWords), sim |-> store[i].sim]]

\* semanticSearch on a query string: extractTypeFilter, then the search
searchRequest ==
  /\ ~sDone
  /\ LET extracted == extractTypeFilter(iQuery)
         q == [typeFilter |-> extracted[1], cleanedEmpty |-> Len(extracted[2]) = 0,
               limit |-> sQuery.limit]
     IN /\ iResult' = extracted
        /\ sQuery' = q
        /\ sResults' = semanticSearchResults(
                         WithConditions(sStore, searchWordsOf(iQuery, extracted[2])), q)
  /\ iDone' = TRUE
  /\ sDone' = TRUE
  /\ UNCHANGED <<pipelineVars, vectorVars, providerVars, storeVars, sStore, iQuery>>

\* ============================================================ provider
\* services/openai.ts.  A backend answers a chat completion with a message
\* content or with an error; an error is known by its message.
NotFound == <<"n", "o", "t", " ", "f", "o", "u", "n", "d">>
LlavaVisionName == <<"l", "l", "a", "v", "a", "-", "v", "i", "s", "i", "o", "n">>
NoBackendsFound == <<"n", "o", " ", "b", "a", "c", "k", "e", "n", "d", "s", " ", "f", "o", "u", "n", "d">>
CouldNotLoadModel == <<"c", "o", "u", "l", "d", " ", "n", "o", "t", " ", "l", "o", "a", "d", " ", "m", "o", "d", "e", "l">>
ModelNotFoundStrings == {NotFound, LlavaVisionName, NoBackendsFound, CouldNotLoadModel}

ErrorMessages ==
  {<<"m", "o", "d", "e", "l", " ", "n", "o", "t", " ", "f", "o", "u", "n", "d">>,
   <<"c", "o", "u", "l", "d", " ", "n", "o", "t", " ", "l", "o", "a", "d", " ", "m", "o", "d", "e", "l">>,
   <<"n", "o", " ", "b", "a", "c", "k", "e", "n", "d", "s", " ", "f", "o", "u", "n", "d">>,
   <<"t", "i", "m", "e", "o", "u", "t">>,
   <<"r", "a", "t", "e", " ", "l", "i", "m", "i", "t">>}

Ok(content) == <<"ok", content>>
Error(message) == <<"error", message>>
Return(value) == <<"return", value>>
Rethrow(message) == <<"throw", message>>

\* what a vision backend can answer
VisionResponses == {Ok(VisionText), Ok(Empty)} \cup {Error(m) : m \in ErrorMessages}

\* localaiError?.message?.includes(...) of the four strings
isModelNotFound(message) == \E str \in ModelNotFoundStrings : includes(message, str)

\* the inner catch of describeImage: what follows a LocalAI error
fallbackDecision(message, hasOpenAIKey) ==
  IF isModelNotFound(message) /\ hasOpenAIKey THEN "fallthrough"
  ELSE IF isModelNotFound(message) THEN "empty"
  ELSE IF hasOpenAIKey THEN "fallthrough"
  ELSE "throw"

\* the part of describeImage after the LocalAI attempt: gpt-4o when a key is
\* configured; its error reaches the outer catch, which returns ''
useOpenAI(calls, hasOpenAIKey, secondary) ==
  IF ~hasOpenAIKey THEN <<calls, Return(Empty)>>
  ELSE <<Append(calls, "gpt-4o"),
         IF secondary[1] = "ok" THEN Return(secondary[2]) ELSE Return(Empty)>>

\* describeImage(imageUrl): the backends called, in order, and the outcome
describeImage(isLocalAI, hasOpenAIKey, fetchOk, primary, secondary) ==
  IF ~fetchOk THEN <<<<>>, Return(Empty)>>
  ELSE IF isLocalAI
  THEN IF primary[1] = "ok" THEN <<<<"llava-vision">>, Return(primary[2])>>
       ELSE IF fallbackDecision(primary[2], hasOpenAIKey) = "fallthrough"
       THEN useOpenAI(<<"llava-vision">>, hasOpenAIKey, secondary)
       ELSE <<<<"llava-vision">>, Return(Empty)>>
  ELSE useOpenAI(<<>>, hasOpenAIKey, secondary)

\* one call of describeImage
describe ==
  /\ ~pDone
  /\ \E isLocalAI \in BOOLEAN, hasOpenAIKey \in BOOLEAN, fetchOk \in BOOLEAN,
        primary \in VisionResponses, secondary \in VisionResponses :
       /\ pCall' = <<"describeImage", isLocalAI, hasOpenAIKey, fetchOk, primary, secondary>>
       /\ pResult' = describeImage(isLocalAI, hasOpenAIKey, fetchOk, primary, secondary)
  /\ pDone' = TRUE
  /\ UNCHANGED <<pipelineVars, queryVars, vectorVars, interpretVars, storeVars>>

\* what the chat backend can answer to the summary request
SummaryResponses == {Ok(Str("ai", 40, 0)), Ok(Empty)} \cup {Error(m) : m \in ErrorMessages}

\* what it can answer to the classification request
Labels == {"NOTE", "ARTICLE", "TODO", "todo", "RECIPE", ""}
ClassifyResponses == {Ok(label) : label \in Labels} \cup {Error(m) : m \in ErrorMessages}

AnalyzedTexts == {Str("text", n, 0) : n \in TextLengths} \cup {Url}

\* String.toUpperCase on the labels
toUpperCase(label) == IF label = "todo" THEN "TODO" ELSE label

validTypes == {"NOTE", "ARTICLE", "PRODUCT", "TODO", "IMAGE", "FILE"}

\* generateSummary without its try/catch: the provider's error propagates
generateSummaryUncaught(text, response) ==
  IF response[1] = "error" THEN Thrown
  ELSE IF Truthy(response[2]) THEN response[2]
  ELSE AppendDots(substring(text, SummaryLimit))

\* generateSummary(text): the answer, or text.substring(0, 100) + '...' when
\* the answer is empty or the call throws
generateSummary(text, response) ==
  IF response[1] = "error" THEN AppendDots(substring(text, SummaryLimit))
  ELSE IF Truthy(response[2]) THEN response[2]
  ELSE AppendDots(substring(text, SummaryLimit))

\* classifyText(text): the answer in upper case when it is a valid type,
\* NOTE when it is not, when it is empty and when the call throws
classifyText(text, response) ==
  IF response[1] = "error" THEN "NOTE"
  ELSE LET classification == IF response[2] = "" THEN "NOTE"
                             ELSE toUpperCase(response[2])
       IN IF classification \in validTypes THEN classification ELSE "NOTE"

\* analyzeText(text): Promise.all of the two calls; rejects when a call has
\* thrown (no value)
analyzeText(text, summaryResponse, classifyResponse) ==
  LET summary == generateSummary(text, summaryResponse)
      type == classifyText(text, classifyResponse)
  IN IF DOMAIN summary = {} THEN Rethrow(<<>>)
     ELSE Return(<<summary, type>>)

\* one call of analyzeText
analyze ==
  /\ ~pDone
  /\ \E text \in AnalyzedTexts, summaryResponse \in SummaryResponses,
        classifyResponse \in ClassifyResponses :
       /\ pCall' = <<"analyzeText", text, summaryResponse, classifyResponse>>
       /\ pResult' = analyzeText(text, summaryResponse, classifyResponse)
  /\ pDone' = TRUE
  /\ UNCHANGED <<pipelineVars, queryVars, vectorVars, interpretVars, storeVars>>

\* ===================================================== embedding store
\* controllers/embeddings.ts storeItemEmbedding, the embeddings table and the
\* cascade of the schema.  Requests run concurrently; a request gives up
\* control at each await.
Requests == {1, 2}

\* `vec-${itemId}`
vectorId(itemId) == <<"vec", itemId>>

\* an insert that does not look for an existing row of the item
createRow(rows, itemId, vid) == Append(rows, <<itemId, vid>>)

\* prisma.embedding.upsert({ where: { itemId }, update: { vectorId }, create })
upsertRow(rows, itemId, vid) ==
  IF \E k \in 1..Len(rows) : rows[k][1] = itemId
  THEN [k \in 1..Len(rows) |-> IF rows[k][1] = itemId THEN <<itemId, vid>> ELSE rows[k]]
  ELSE Append(rows, <<itemId, vid>>)

ReqAt(r, pc) == r \in DOMAIN eReqs /\ eReqs[r][1] = pc
SetReq(r, pc) == [eReqs EXCEPT ![r][1] = pc]

\* a POST /api/embeddings arrives; the body passes storeEmbeddingSchema
ReceiveStore(r) ==
  /\ r \notin DOMAIN eReqs
  /\ \E itemId \in VecItemIds, embedding \in VectorsOfDim(modelDim("nomic-embed-text")) :
       eReqs' = [k \in DOMAIN eReqs \cup {r} |->
                   IF k = r THEN <<"findUnique", itemId, embedding>> ELSE eReqs[k]]
  /\ UNCHANGED <<pipelineVars, queryVars, vectorVars, interpretVars, providerVars,
                 eItems, eRows, eLog, eDeleted>>

\* a handler without the existence check: every request whose lookup
\* succeeds goes on to storeEmbedding
FindItemUnchecked(r) ==
  /\ ReqAt(r, "findUnique")
  /\ \E ok \in BOOLEAN :
       eReqs' = SetReq(r, IF ~ok THEN "failed" ELSE "storeEmbedding")
  /\ UNCHANGED <<pipelineVars, queryVars, vectorVars, interpretVars, providerVars,
                 eItems, eRows, eLog, eDeleted>>

\* prisma.item.findUnique: 'Item not found' for a missing item, next(error)
\* when the store call throws
FindItem(r) ==
  /\ ReqAt(r, "findUnique")
  /\ \E ok \in BOOLEAN :
       eReqs' = SetReq(r, IF ~ok THEN "failed"
                          ELSE IF eReqs[r][2] \in eItems THEN "storeEmbedding"
                          ELSE "rejected")
  /\ UNCHANGED <<pipelineVars, queryVars, vectorVars, interpretVars, providerVars,
                 eItems, eRows, eLog, eDeleted>>

\* storeEmbedding(itemId, embedding): vectorStore.upsert under vec-<itemId>
StoreVector(r) ==
  /\ ReqAt(r, "storeEmbedding")
  /\ index' = upsert(index, [itemId |-> eReqs[r][2], vector |-> eReqs[r][3]])
  /\ eLog' = Append(eLog, r)
  /\ eReqs' = SetReq(r, "upsert")
  /\ UNCHANGED <<pipelineVars, queryVars, interpretVars, providerVars,
                 vQuery, vResults, vThrew, vDone, eItems, eRows, eDeleted>>

\* prisma.embedding.upsert, then 201; the call throws on a store fault and
\* when the item's row is gone (foreign key)
PersistEmbedding(r) ==
  /\ ReqAt(r, "upsert")
  /\ \E ok \in BOOLEAN :
       IF ok /\ eReqs[r][2] \in eItems
       THEN /\ eRows' = upsertRow(eRows, eReqs[r][2], vectorId(eReqs[r][2]))
            /\ eReqs' = SetReq(r, "created")
       ELSE /\ eRows' = eRows
            /\ eReqs' = SetReq(r, "failed")
  /\ UNCHANGED <<pipelineVars, queryVars, vectorVars, interpretVars, providerVars,
                 eItems, eLog, eDeleted>>

\* An item's row is deleted (its own DELETE, or its user's through
\* items_user_id_fkey); embeddings_item_id_fkey ON DELETE CASCADE removes its
\* embeddings row.  No code calls deleteEmbedding.
cascadeDelete ==
  /\ \E itemId \in eItems :
       /\ eItems' = eItems \ {itemId}
       /\ eRows' = SelectSeq(eRows, LAMBDA row : row[1] # itemId)
       /\ eDeleted' = eDeleted \cup {itemId}
  /\ UNCHANGED <<pipelineVars, queryVars, vectorVars, interpretVars, providerVars,
                 eReqs, eLog>>

\* The server process restarts: the module is loaded again and the singleton
\* is a new InMemoryVectorStore with an empty Map; the requests that were
\* being served are lost; the database keeps its rows.
restart ==
  /\ index' = <<>>
  /\ eReqs' = [r \in DOMAIN eReqs |->
                 IF eReqs[r][1] \in {"findUnique", "storeEmbedding", "upsert"}
                 THEN <<"failed", eReqs[r][2], eReqs[r][3]>> ELSE eReqs[r]]
  /\ UNCHANGED <<pipelineVars, queryVars, interpretVars, providerVars,
                 vQuery, vResults, vThrew, vDone, eItems, eRows, eLog, eDeleted>>

\* ------------------------------------------------------- specifications
PipelineInit ==
  /\ items = <<>>
  /\ jobs = <<>>
  /\ vectors = {}
  /\ requeues = 0
  /\ dupAdds = {}

\* no search request is open
NoSearch ==
  /\ sStore = <<>>
  /\ sQuery = [typeFilter |-> "NONE", cleanedEmpty |-> FALSE, limit |-> 1]
  /\ sResults = <<>>
  /\ sDone = TRUE

\* the vector index is empty and no search call is open
NoVectorSearch ==
  /\ index = <<>>
  /\ vQuery = <<>>
  /\ vResults = <<>>
  /\ vThrew = FALSE
  /\ vDone = TRUE

\* no call of the query interpreter is open
NoInterpret ==
  /\ iQuery = <<>>
  /\ iResult = <<>>
  /\ iDone = TRUE

\* no provider call is open
NoProviderCall ==
  /\ pCall = <<>>
  /\ pResult = <<>>
  /\ pDone = TRUE

\* the server's tables are empty and no embedding request is open
NoStore ==
  /\ eItems = {}
  /\ eRows = <<>>
  /\ eReqs = <<>>
  /\ eLog = <<>>
  /\ eDeleted = {}

Init ==
  /\ PipelineInit
  /\ apiKey \in BOOLEAN
  /\ NoSearch
  /\ NoVectorSearch
  /\ NoInterpret
  /\ NoProviderCall
  /\ NoStore

WorkerStep(j) ==
  \/ StartJob(j) \/ SetProcessing(j) \/ FindUnique(j)
  \/ processTextItem(j) \/ processLinkItem(j)
  \/ FileStart(j) \/ OcrSettle(j) \/ VisionSettle(j) \/ FileJoin(j)
  \/ generateAndStoreEmbedding(j) \/ MarkProcessed(j) \/ Catch(j)
  \/ BackoffElapsed(j)

Next ==
  \/ captureText \/ captureLink \/ captureFile \/ Requeue
  \/ \E j \in DOMAIN jobs : WorkerStep(j)

Spec == Init /\ [][Next]_vars

\* The worker keeps running: every enabled step of a job is eventually taken.
FairSpec == Spec /\ \A j \in ItemIds : WF_vars(j \in DOMAIN jobs /\ WorkerStep(j))

\* The pipeline with rows that are deleted under waiting jobs.
VanishNext == Next \/ deleteItem

VanishSpec == Init /\ [][VanishNext]_vars

\* One search request against any store within the bounds.
SearchInit ==
  /\ PipelineInit
  /\ apiKey = TRUE
  /\ sStore \in [SearchIds -> SearchItems]
  /\ sQuery \in Queries
  /\ sResults = <<>>
  /\ sDone = FALSE
  /\ NoVectorSearch
  /\ NoInterpret
  /\ NoProviderCall
  /\ NoStore

SearchNext == semanticSearch

SearchSpec == SearchInit /\ [][SearchNext]_vars

\* One search request against any store whose rows carry a status.
StatusInit ==
  /\ PipelineInit
  /\ apiKey = TRUE
  /\ sStore \in [SearchIds -> StatusItems]
  /\ sQuery \in Queries
  /\ sResults = <<>>
  /\ sDone = FALSE
  /\ NoVectorSearch
  /\ NoInterpret
  /\ NoProviderCall
  /\ NoStore

StatusSpec == StatusInit /\ [][SearchNext]_vars

\* The vector index under any sequence of stores and deletes, then one search.
VectorInit ==
  /\ PipelineInit
  /\ apiKey = TRUE
  /\ NoSearch
  /\ index = <<>>
  /\ vQuery = <<>>
  /\ vResults = <<>>
  /\ vThrew = FALSE
  /\ vDone = FALSE
  /\ NoInterpret
  /\ NoProviderCall
  /\ NoStore

VectorNext == storeEmbedding \/ deleteEmbedding \/ vectorStoreSearch

VectorSpec == VectorInit /\ [][VectorNext]_vars

\* One call of the query interpreter on any query within the bounds.
InterpretInit ==
  /\ PipelineInit
  /\ apiKey = TRUE
  /\ NoSearch
  /\ NoVectorSearch
  /\ iQuery \in QueryWords
  /\ iResult = <<>>
  /\ iDone = FALSE
  /\ NoProviderCall
  /\ NoStore

InterpretNext == interpret

InterpretSpec == InterpretInit /\ [][InterpretNext]_vars

\* One search request with its query string against rows with their text
\* columns; the second row is another user's.
KeywordInit ==
  /\ PipelineInit
  /\ apiKey = TRUE
  /\ sStore \in {store \in [{1, 2} -> KeywordItems] :
                   store[2].userId = "other" /\ store[2].text = <<>>
                     /\ store[2].summary = <<>> /\ store[2].ocrText = <<>>}
  /\ sQuery \in {q \in Queries : q.typeFilter = "NONE" /\ ~q.cleanedEmpty}
  /\ sResults = <<>>
  /\ sDone = FALSE
  /\ NoVectorSearch
  /\ iQuery \in KeywordQueries
  /\ iResult = <<>>
  /\ iDone = FALSE
  /\ NoProviderCall
  /\ NoStore

KeywordNext == searchRequest

KeywordSpec == KeywordInit /\ [][KeywordNext]_vars

\* One call of a provider function, the backends answering in any way.
ProviderInit ==
  /\ PipelineInit
  /\ apiKey = TRUE
  /\ NoSearch
  /\ NoVectorSearch
  /\ NoInterpret
  /\ pCall = <<>>
  /\ pResult = <<>>
  /\ pDone = FALSE
  /\ NoStore

ProviderNext == describe \/ analyze

ProviderSpec == ProviderInit /\ [][ProviderNext]_vars

\* Concurrent embedding requests, deletions and one search of the index.
StoreInit ==
  /\ PipelineInit
  /\ apiKey = TRUE
  /\ NoSearch
  /\ index = <<>>
  /\ vQuery = <<>>
  /\ vResults = <<>>
  /\ vThrew = FALSE
  /\ vDone = FALSE
  /\ NoInterpret
  /\ NoProviderCall
  /\ eItems = VecItemIds
  /\ eRows = <<>>
  /\ eReqs = <<>>
  /\ eLog = <<>>
  /\ eDeleted = {}

StoreNext ==
  \/ \E r \in Requests :
       ReceiveStore(r) \/ FindItem(r) \/ StoreVector(r) \/ PersistEmbedding(r)
  \/ cascadeDelete
  \/ vectorStoreSearch

StoreSpec == StoreInit /\ [][StoreNext]_vars

\* The same with restarts of the server process.
RestartNext == StoreNext \/ restart

RestartSpec == StoreInit /\ [][RestartNext]_vars

\* ======================================================== claims C1 - C9
ItemOf(j) == items[jobs[j].itemId]
\* the handler has returned or thrown at least once and is not running
Terminated(j) ==
  \/ jobs[j].state \in {"completed", "failed", "delayed"}
  \/ jobs[j].state = "waiting" /\ jobs[j].attemptsMade > 0

AllowedTransitions ==
  {<<"PENDING", "PROCESSING">>, <<"PROCESSING", "PROCESSED">>,
   <<"PROCESSING", "FAILED">>}

\* C1 (as claimed): every status change of an existing item is PENDING ->
\* PROCESSING, PROCESSING -> PROCESSED or PROCESSING -> FAILED; in particular
\* no step moves an item out of PROCESSED or FAILED.
C1_OnlyForwardTransitions ==
  [][\A i \in DOMAIN items :
       items'[i].status # items[i].status
         => <<items[i].status, items'[i].status>> \in AllowedTransitions]_vars

\* C2 (as claimed): whenever processItemJob has terminated for an item (the
\* job is completed, failed, or waiting for a retry), the item is not in
\* PROCESSING.
C2_NeverLeftProcessing ==
  \A j \in DOMAIN jobs : Terminated(j) => ItemOf(j).status # "PROCESSING"

\* C3 (as claimed): a job enqueued by a capture request is in the failed
\* state only after 3 attempts, and then its item is FAILED.
C3_CaptureJobRetriedThrice ==
  \A j \in DOMAIN jobs :
    (jobs[j].origin = "capture" /\ jobs[j].state = "failed")
      => (jobs[j].attemptsMade = WorkerAttempts /\ ItemOf(j).status = "FAILED")

\* C4: however often queueItemProcessing is called for an item, the queue
\* holds at most one entry for it, and after a call that found the first job
\* unfinished the only entry is the one with id item-<itemId>.
C4_IdempotentEnqueue ==
  /\ \A i \in DOMAIN items : Cardinality(JobsOf(i)) <= 1
  /\ \A i \in dupAdds : JobsOf(i) = {jobId(i)}

C4_Witness ==
  \E i \in dupAdds : JobsOf(i) = {jobId(i)} /\ jobs[jobId(i)].state = "completed"

\* C5: in an attempt in which no store call throws, a failed embedding step
\* is followed by the PROCESSED update only; the attempt ends with the job
\* completed (not failed, not scheduled for a retry) and the item PROCESSED.
C5_EmbeddingFailureNotFatal ==
  \A j \in DOMAIN jobs :
    (jobs[j].l.embed = "failed" /\ ~jobs[j].l.storeFault)
      => /\ jobs[j].l.pc \in {"markProcessed", "idle"}
         /\ jobs[j].l.pc = "idle"
              => /\ jobs[j].state = "completed"
                 /\ ItemOf(j).status = "PROCESSED"

C5_Witness ==
  \E j \in DOMAIN jobs :
    /\ jobs[j].type = "text" /\ Truthy(jobs[j].l.item.text)
    /\ jobs[j].l.embed = "failed" /\ ~jobs[j].l.storeFault
    /\ jobs[j].state = "completed" /\ ItemOf(j).status = "PROCESSED"

\* C6 (as claimed): a step that ends an attempt by setting the item to FAILED
\* belongs to an attempt whose embedding step did not run.
C6_FailedNeverEmbedded ==
  [][\A j \in DOMAIN jobs :
       (At(j, "catch") /\ ItemOf(j).status # "FAILED"
          /\ items'[jobs[j].itemId].status = "FAILED")
         => jobs[j].l.embed \notin {"stored", "failed"}]_vars

\* C6 (amended): when the error that reaches the catch block comes from the
\* PROCESSING update, the item fetch or the enrich-by-kind step, the embedding
\* step has not run in that attempt; it has run only when the throwing call is
\* the final PROCESSED update.
C6_EnrichFailureSkipsEmbedding ==
  \A j \in DOMAIN jobs :
    jobs[j].l.threwAt # "none"
      => /\ jobs[j].l.threwAt \in {"setProcessing", "findUnique", "enrich"}
              => jobs[j].l.embed = "none"
         /\ jobs[j].l.embed # "none" => jobs[j].l.threwAt = "markProcessed"

C6_Witness ==
  \E j \in DOMAIN jobs :
    /\ jobs[j].l.threwAt = "enrich" /\ jobs[j].l.embed = "none"
    /\ jobs[j].state = "failed" /\ ItemOf(j).status = "FAILED"

\* C7 (as claimed): every captured item eventually reaches PROCESSED or
\* FAILED while the worker keeps running.
C7_EveryItemSettles ==
  \A i \in ItemIds :
    (i \in DOMAIN items)
      ~> (i \in DOMAIN items /\ items[i].status \in {"PROCESSED", "FAILED"})

\* C8: without a provider, in a text attempt in which no store call throws,
\* once processTextItem has run the summary is the text itself (at most 100
\* characters) or its first 100 characters plus '...', hence non-empty; the
\* attempt ends with the job completed at its first attempt and the item
\* PROCESSED, the embedding step having been skipped.
C8_NoProviderTextCompletes ==
  \A j \in DOMAIN jobs :
    LET text == jobs[j].l.item.text IN
    (~apiKey /\ jobs[j].type = "text" /\ Truthy(text) /\ ~jobs[j].l.storeFault
       /\ jobs[j].l.pc \in {"embed", "markProcessed", "idle"})
      => /\ ItemOf(j).summary =
              IF StrLen(text) <= SummaryLimit THEN text
              ELSE Str(text.src, SummaryLimit, EllipsisLen)
         /\ Truthy(ItemOf(j).summary)
         /\ jobs[j].l.pc = "idle"
              => /\ jobs[j].state = "completed"
                 /\ ItemOf(j).status = "PROCESSED"
                 /\ jobs[j].l.embed = "skipped"

C8_Witness ==
  \E j \in DOMAIN jobs :
    /\ ~apiKey /\ jobs[j].type = "text" /\ jobs[j].state = "completed"
    /\ jobs[j].attemptsMade = 0
    /\ StrLen(jobs[j].l.item.text) > SummaryLimit
    /\ ItemOf(j).summary = Str("text", SummaryLimit, EllipsisLen)
    /\ ItemOf(j).status = "PROCESSED"

\* C9: the code after the OCR/vision join runs only when both branches have
\* settled; in an attempt in which OCR rejected, vision returned a
\* description and no store call throws, Content.text is the vision
\* description after the join and the attempt ends with the job completed
\* and the item PROCESSED.
C9_PartialFailureJoin ==
  \A j \in DOMAIN jobs :
    jobs[j].l.joined
      => /\ jobs[j].l.ocr # "pending" /\ jobs[j].l.vision # "pending"
         /\ (jobs[j].l.ocr = "rejected" /\ jobs[j].l.vision = "text"
               /\ ~jobs[j].l.storeFault)
              => /\ ItemOf(j).text = VisionText
                 /\ jobs[j].l.pc \in {"embed", "markProcessed", "idle"}
                 /\ jobs[j].l.pc = "idle"
                      => jobs[j].state = "completed" /\ ItemOf(j).status = "PROCESSED"

C9_Witness ==
  \E j \in DOMAIN jobs :
    /\ jobs[j].l.joined /\ jobs[j].l.ocr = "rejected" /\ jobs[j].l.vision = "text"
    /\ ~jobs[j].l.storeFault
    /\ ItemOf(j).text = VisionText
    /\ jobs[j].state = "completed" /\ ItemOf(j).status = "PROCESSED"

\* ========================================================= claims C10 -
\* the semantic path returns item i (in the user's scope, of the detected type)
SemanticHit(i) ==
  /\ \E k \in 1..Len(searchSimilar(sStore, sQuery.limit * 2, MinScore)) :
       searchSimilar(sStore, sQuery.limit * 2, MinScore)[k] = i
  /\ sStore[i].userId = SessionUser /\ TypeOk(sStore, sQuery, i)
KeywordHit(i) == i \in KeywordMatches(sStore, sQuery)

\* 0.7 * semantic + 0.3 * keyword, in hundredths
Hybrid(s, k) == (7 * s + 3 * k) \div 10
ResultSource(r) == IF "source" \in DOMAIN r THEN r.source ELSE "none"

\* C10 (as claimed): every result that both the semantic and the keyword
\* path return carries 0.7 * s + 0.3 * k and source hybrid (0.69 for s = 0.6
\* and k = 0.9).
C10_HybridScore ==
  /\ Hybrid(60, 90) = 69
  /\ sDone =>
       \A k \in 1..Len(sResults) :
         LET r == sResults[k] IN
         (SemanticHit(r.itemId) /\ KeywordHit(r.itemId))
           => /\ r.relevanceScore = Hybrid(sStore[r.itemId].sim, KeywordScore)
              /\ ResultSource(r) = "hybrid"

\* the ids carried by the response
ResultIds == {sResults[k].itemId : k \in 1..Len(sResults)}
\* the user's items of the detected kind
OfKind == {i \in DOMAIN sStore :
             sStore[i].userId = SessionUser /\ sStore[i].type = sQuery.typeFilter}
\* the rows the keyword findMany returns (take: limit, newest first)
KeywordPage == Take(ByCreatedDesc(KeywordMatches(sStore, sQuery)), sQuery.limit)

\* C11 (as claimed): the keyword search runs for every query, and an item it
\* returns that the semantic path does not return is in the response with the
\* keyword score, also when the semantic path returns other items.
C11_KeywordOnlyKept ==
  sDone =>
    \A n \in 1..Len(KeywordPage) :
      ~SemanticHit(KeywordPage[n])
        => \E k \in 1..Len(sResults) :
             /\ sResults[k].itemId = KeywordPage[n]
             /\ sResults[k].relevanceScore = KeywordScore

\* C12 (as claimed): for a query made of a kind keyword only, when neither the
\* semantic nor the keyword path returns an item, the response holds every
\* item of that kind of the user (as many as the limit admits).
C12_KindOnlyReturnsAll ==
  (/\ sDone /\ sQuery.typeFilter # "NONE" /\ sQuery.cleanedEmpty
   /\ \A i \in DOMAIN sStore : ~SemanticHit(i) /\ ~KeywordHit(i)
   /\ Cardinality(OfKind) <= sQuery.limit)
    => ResultIds = OfKind

\* C13 (as claimed): when a kind was detected the response is empty only if
\* the user has no item of that kind, whether or not the cleaned query is
\* empty.
C13_KindFallbackNeverEmpty ==
  (sDone /\ sQuery.typeFilter # "NONE" /\ Len(sResults) = 0) => OfKind = {}

\* C14 (as claimed): no response holds more than `limit` results.
C14_AtMostLimit == sDone => Len(sResults) <= sQuery.limit

\* C15 (as claimed): every candidate that searchSimilar(queryEmbedding,
\* limit * 2, minScore) returns to semanticSearch scores at least minScore.
C15_CandidatesAboveMinScore ==
  sDone =>
  \A k \in 1..Len(searchSimilar(sStore, sQuery.limit * 2, MinScore)) :
    sStore[searchSimilar(sStore, sQuery.limit * 2, MinScore)[k]].sim >= MinScore

\* ======================================================= claims C16 - C19
\* the vector stored for an item
VectorOf(itemId) ==
  index[CHOOSE k \in 1..Len(index) : index[k].itemId = itemId].vector
ReturnedIds == {vResults[n].itemId : n \in 1..Len(vResults)}
IsZeroVector(v) == \A i \in 1..Len(v) : v[i] = 0

\* C16 (as claimed): a search over an index that holds a vector whose length
\* differs from the query vector's fails with an error instead of returning a
\* list without that record.
C16_MismatchRaises ==
  (vDone /\ \E k \in 1..Len(index) : Len(index[k].vector) # Len(vQuery[1]))
    => vThrew

\* C17 (as claimed): all vectors stored in the index have the same length.
C17_OneDimension ==
  \A k \in 1..Len(index), n \in 1..Len(index) :
    Len(index[k].vector) = Len(index[n].vector)

\* C18: search(queryVector, k) returns at most k records, each a stored record
\* with its cosine similarity to the query, in order of non-increasing score,
\* and every stored record that has a score and is not returned scores no
\* more than the last record returned.  (A record of another length than the
\* query has no score.)
C18_SearchOrdered ==
  vDone =>
    /\ Len(vResults) <= vQuery[2]
    /\ \A n \in 1..Len(vResults) :
         /\ \E k \in 1..Len(index) : index[k].itemId = vResults[n].itemId
         /\ vResults[n].score = cosineSimilarity(vQuery[1], VectorOf(vResults[n].itemId))
         /\ n < Len(vResults) => Key(vResults[n].score) >= Key(vResults[n + 1].score)
    /\ \A k \in 1..Len(index) :
         (/\ index[k].itemId \notin ReturnedIds
          /\ cosineSimilarity(vQuery[1], index[k].vector) # Thrown)
           => /\ Len(vResults) > 0
              /\ Key(cosineSimilarity(vQuery[1], index[k].vector))
                   <= Key(vResults[Len(vResults)].score)

C18_Witness ==
  /\ vDone /\ vQuery[2] = 1 /\ Len(index) = 2 /\ Len(vResults) = 1
  /\ vResults[1].itemId = index[2].itemId
  /\ cosineSimilarity(vQuery[1], index[1].vector) # Thrown
  /\ Key(cosineSimilarity(vQuery[1], index[1].vector)) < Key(vResults[1].score)

\* C19 (as claimed): a stored nonzero vector equal to the query vector scores
\* exactly 1, and a score is 0 when the query or the stored vector is the
\* zero vector.
C19_CosineIdentity ==
  vDone =>
    \A n \in 1..Len(vResults) :
      LET v == VectorOf(vResults[n].itemId) IN
      /\ (v = vQuery[1] /\ ~IsZeroVector(v)) => vResults[n].score = One
      /\ (IsZeroVector(v) \/ IsZeroVector(vQuery[1])) => vResults[n].score = Zero

\* ================================================================== C20
\* the categories that have a keyword token among the words of the query
TokenCategories(query) ==
  {k \in 1..Len(Categories) :
     \E n \in 1..Len(query) : MatchesPattern(query[n], Categories[k])}

\* C20 (as claimed): for a query that contains a keyword of a category, the
\* interpreter returns the first such category, and the cleaned query is the
\* query without that category's keyword tokens and without the stop words,
\* its other words in their order.
C20_KindAndCleanedQuery ==
  (iDone /\ TokenCategories(iQuery) # {})
    => LET k == CHOOSE k \in TokenCategories(iQuery) :
                  \A m \in TokenCategories(iQuery) : k <= m
       IN /\ iResult[1] = Categories[k]
          /\ iResult[2] = SelectSeq(iQuery,
                            LAMBDA w : ~MatchesPattern(w, Categories[k])
                                       /\ w \notin StopWords)

\* ================================================================== C21
\* the categories one of whose keywords occurs in the query string
OccurringCategories(query) ==
  {k \in 1..Len(Categories) :
     \E kw \in DetectKeywords(Categories[k]) : includes(Joined(query), kw)}
\* the number of places of a sequence that hold w
Count(seq, w) == Cardinality({n \in 1..Len(seq) : seq[n] = w})

\* C21: a query in which keywords of several categories occur is given the
\* category that comes first in the order IMAGE, ARTICLE, NOTE, FILE, TODO,
\* and the words that are keywords of the other categories only (and are not
\* stop words) are all kept in the cleaned query; the words that are missing
\* from the cleaned query are keywords of the detected category or stop words.
C21_FirstMatchWins ==
  (iDone /\ Cardinality(OccurringCategories(iQuery)) >= 2)
    => /\ \E k \in OccurringCategories(iQuery) :
            /\ iResult[1] = Categories[k]
            /\ \A m \in OccurringCategories(iQuery) : k <= m
       /\ \A n \in 1..Len(iQuery) :
            LET w == iQuery[n] IN
            IF MatchesPattern(w, iResult[1]) \/ w \in StopWords
            THEN Count(iResult[2], w) = 0
            ELSE Count(iResult[2], w) = Count(iQuery, w)

C21_Witness ==
  /\ iDone /\ iResult[1] = "IMAGE"
  /\ OccurringCategories(iQuery) = {1, 2, 3}
  /\ \E n \in 1..Len(iResult[2]) : MatchesPattern(iResult[2][n], "NOTE")
  /\ \E n \in 1..Len(iResult[2]) : MatchesPattern(iResult[2][n], "ARTICLE")

\* ================================================================== C22
\* the LocalAI attempt was made and failed
PrimaryFailed ==
  /\ pDone /\ pCall[1] = "describeImage"
  /\ Len(pResult[1]) > 0 /\ pResult[1][1] = "llava-vision"
  /\ pCall[5][1] = "error"
SecondaryCalled == \E n \in 1..Len(pResult[1]) : pResult[1][n] = "gpt-4o"

\* C22 (as claimed): after a failed LocalAI attempt, gpt-4o is called exactly
\* when the error is of the model-not-available class and a key is
\* configured; on any other error no second call is made and the error
\* leaves describeImage instead of a value.
C22_FallbackOnlyOnModelNotFound ==
  PrimaryFailed
    => /\ SecondaryCalled <=> (isModelNotFound(pCall[5][2]) /\ pCall[3])
       /\ ~isModelNotFound(pCall[5][2]) => pResult[2] = Rethrow(pCall[5][2])

\* ================================================================== C23
\* C23: analyzeText always resolves, with a non-empty summary and a valid
\* type; when the summary request fails the summary is the first 100
\* characters of the input plus '...', and when the classification request
\* fails the type is NOTE.
C23_AnalyzeNeverThrows ==
  (pDone /\ pCall[1] = "analyzeText")
    => /\ pResult[1] = "return"
       /\ Truthy(pResult[2][1])
       /\ pResult[2][2] \in validTypes
       /\ pCall[3][1] = "error"
            => pResult[2][1] =
                 Str(pCall[2].src, Min(pCall[2].len, SummaryLimit), EllipsisLen)
       /\ pCall[4][1] = "error" => pResult[2][2] = "NOTE"

C23_Witness ==
  /\ pDone /\ pCall[1] = "analyzeText"
  /\ pCall[3][1] = "error" /\ pCall[4][1] = "error"
  /\ StrLen(pCall[2]) > SummaryLimit
  /\ pResult = Return(<<Str("text", SummaryLimit, EllipsisLen), "NOTE">>)

\* ================================================================== C24
\* C24 (as claimed): a second run of processItemJob for an item adds no row
\* to the store, so an item never has more Media rows than one run leaves:
\* the uploaded file's row for a file item, the preview image's row for a
\* link item.
C24_RerunAddsNoRow ==
  \A i \in DOMAIN items : Len(items[i].media) <= 1

\* ======================================================= claims C25 - C28
\* the places of the index that hold a record of the item
RecordsOf(itemId) == {k \in 1..Len(index) : index[k].itemId = itemId}
\* the embeddings rows of the item
RowsOf(itemId) == {k \in 1..Len(eRows) : eRows[k][1] = itemId}
\* the requests of the item that have written the index, in order
WritersOf(itemId) == SelectSeq(eLog, LAMBDA r : eReqs[r][2] = itemId)
\* a request for the item was answered 201
Stored(itemId) == \E r \in DOMAIN eReqs : eReqs[r][1] = "created" /\ eReqs[r][2] = itemId

\* C25: for an existing item with a successful embedding store, however many
\* stores were made for it, the index holds exactly one record of the item,
\* which carries the vector written last, and the embeddings table holds
\* exactly one row of the item, whose vectorId is vec-<itemId>.
C25_OneVectorOneRow ==
  \A i \in eItems :
    Stored(i)
      => /\ Cardinality(RecordsOf(i)) = 1
         /\ \A k \in RecordsOf(i) :
              index[k].vector = eReqs[WritersOf(i)[Len(WritersOf(i))]][3]
         /\ Cardinality(RowsOf(i)) = 1
         /\ \A k \in RowsOf(i) : eRows[k][2] = vectorId(i)

C25_Witness ==
  \E i \in eItems :
    /\ \A r \in Requests : ReqAt(r, "created") /\ eReqs[r][2] = i
    /\ eReqs[1][3] # eReqs[2][3]
    /\ eLog = <<2, 1>>
    /\ Cardinality(RecordsOf(i)) = 1 /\ Cardinality(RowsOf(i)) = 1
    /\ \A k \in RecordsOf(i) : index[k].vector = eReqs[1][3]

\* C26 (as claimed): the index holds no vector of a deleted item.
C26_DeletedItemHasNoVector ==
  \A i \in eDeleted : RecordsOf(i) = {}

\* C28: every record of the index is the complete record of one request
\* that has written it, every result of a search is the score of such a
\* record against the query, and once two requests have written the same
\* item the index holds exactly one record of it, the complete record of one
\* of the two.
C28_WritesAreAtomic ==
  /\ \A k \in 1..Len(index) :
       \E n \in 1..Len(eLog) :
         index[k] = [itemId |-> eReqs[eLog[n]][2], vector |-> eReqs[eLog[n]][3]]
  /\ vDone =>
       \A m \in 1..Len(vResults) :
         \E n \in 1..Len(eLog) :
           /\ vResults[m].itemId = eReqs[eLog[n]][2]
           /\ vResults[m].score = cosineSimilarity(vQuery[1], eReqs[eLog[n]][3])
  /\ \A i \in VecItemIds :
       Len(WritersOf(i)) = 2
         => /\ Cardinality(RecordsOf(i)) = 1
            /\ \A k \in RecordsOf(i) :
                 \E n \in 1..2 : index[k].vector = eReqs[WritersOf(i)[n]][3]

C28_Witness ==
  /\ vDone /\ Len(vResults) = 1 /\ Len(eLog) = 2
  /\ eReqs[1][2] = eReqs[2][2] /\ eReqs[1][3] # eReqs[2][3]
  /\ ReqAt(1, "upsert") /\ ReqAt(2, "upsert")
  /\ Len(index) = 1

\* ================================================================== C27
\* C27: the response to a query does not depend on the status of any item:
\* the same query against the store with one item's status replaced returns
\* the same list, so an item that is returned when PROCESSED is returned at
\* the same place when FAILED.
C27_StatusIgnored ==
  sDone =>
    \A i \in DOMAIN sStore, status \in SearchStatuses :
      semanticSearchResults([sStore EXCEPT ![i].status = status], sQuery) = sResults

C27_Witness ==
  /\ sDone /\ Len(sResults) = 2
  /\ sStore[sResults[1].itemId].status = "FAILED"
  /\ sStore[sResults[2].itemId].status = "PROCESSED"
  /\ sResults[1].relevanceScore = KeywordScore

\* ================================================================== C29
\* C29 (as claimed): the text a job embeds is built from the item's fields as
\* they are after the enrich-by-kind step of the same job: its summary, its
\* content text and its OCR text are those of the store.
C29_EmbedsEnrichedFields ==
  \A j \in DOMAIN jobs :
    jobs[j].l.embed = "stored"
      => jobs[j].l.embedded = textToEmbed(ItemOf(j))

\* ================================================================== C30
\* C30 (as claimed): once processLinkItem has ended in an attempt in which
\* the metadata fetch failed or a step threw, the item's title and its
\* summary are both the URL, so neither is empty.
C30_LinkFallbackIsUrl ==
  \A j \in DOMAIN jobs :
    (jobs[j].l.linkFailure # "none" /\ jobs[j].l.pc # "link")
      => /\ ItemOf(j).title = Url
         /\ ItemOf(j).summary = Url

\* ================================================================== C31
\* C31 (as claimed): once the code after the join of an image file job has
\* run without a store call throwing, Content.text is the vision description
\* when that is not empty, else the OCR text when that is not empty, else the
\* placeholder 'Image file: <title>'.
C31_ImageTextPriority ==
  \A j \in DOMAIN jobs :
    (jobs[j].l.joined /\ ~jobs[j].l.storeFault)
      => ItemOf(j).text = Or3(IF jobs[j].l.vision = "text" THEN VisionText ELSE Empty,
                              IF jobs[j].l.ocr = "text" THEN OcrText ELSE Empty,
                              Placeholder)

\* ================================================================== C32
\* the positions of the handler inside the enrich-by-kind step
EnrichSteps == {"text", "link", "file", "allSettled"}

\* C32: in every attempt, whatever the kind of the job, the enrich-by-kind
\* step that returns is followed by the embedding step, the embedding step
\* runs only at that position, after the enrich-by-kind step, and the item is
\* set to PROCESSED only by an attempt whose embedding step has run.
C32_EmbeddingAfterEnrichBeforeProcessed ==
  [][\A j \in DOMAIN jobs :
       LET l == jobs[j].l  i == jobs[j].itemId IN
       /\ (l.pc \in EnrichSteps /\ jobs'[j].l.pc \notin EnrichSteps \cup {"catch"})
            => jobs'[j].l.pc = "embed" /\ jobs'[j].l.embed = "none"
       /\ (l.embed = "none" /\ jobs'[j].l.embed # "none")
            => At(j, "embed") /\ items[i].status = "PROCESSING"
       /\ (items[i].status # "PROCESSED" /\ items'[i].status = "PROCESSED")
            => At(j, "markProcessed") /\ l.embed # "none"]_vars

C32_Witness ==
  \E j \in DOMAIN jobs :
    /\ jobs[j].type = "file" /\ jobs[j].l.joined /\ jobs[j].l.ocr = "text"
    /\ jobs[j].l.embed = "stored"
    /\ jobs[j].state = "completed" /\ ItemOf(j).status = "PROCESSED"

\* ================================================================== C33
\* the words a keyword query searches for: those of the cleaned query, or of
\* the original query when the cleaned query is empty; the direct type search
\* with an empty cleaned query is the listing of a type and has no words
TermsOf(score) ==
  IF score = TypeSearchScore THEN iResult[2] ELSE searchWordsOf(iQuery, iResult[2])

\* the text columns of a row
FieldsOf(item) == {item.title, item.summary, item.text, item.ocrText}

\* C33: every item of a response produced by the keyword fallback (score
\* 0.6) or by the direct type search (score 0.7) contains each searched word,
\* letter case ignored, in its title, its summary, its content text or its
\* OCR text; an item that lacks one of the words in all four is not returned.
C33_KeywordResultsHoldEveryTerm ==
  sDone =>
    \A k \in 1..Len(sResults) :
      sResults[k].relevanceScore \in {KeywordScore, TypeSearchScore}
        => \A n \in 1..Len(TermsOf(sResults[k].relevanceScore)) :
             \E field \in FieldsOf(sStore[sResults[k].itemId]) :
               includes(toLowerCase(field),
                        toLowerCase(TermsOf(sResults[k].relevanceScore)[n]))

C33_Witness ==
  /\ sDone /\ Len(sResults) = 1
  /\ sResults[1].relevanceScore = KeywordScore
  /\ iQuery = <<<<"D", "O", "G">>, <<"c", "a", "t">>>>
  /\ sStore[sResults[1].itemId].title = <<"D", "o", "g">>
  /\ sStore[sResults[1].itemId].summary = <<"c", "a", "t">>
  /\ sStore[sResults[1].itemId].text = <<>>
  /\ sStore[sResults[1].itemId].ocrText = <<>>

\* ================================================================== C34
\* C34: every item of a response is an item of the session's user and, when
\* a type was detected, of that type, whichever path produced the response
\* and whatever the index returned (the index holds the vectors of every
\* user's items).
C34_ResultsInScope ==
  sDone =>
    \A k \in 1..Len(sResults) :
      /\ sStore[sResults[k].itemId].userId = SessionUser
      /\ sQuery.typeFilter # "NONE"
           => sStore[sResults[k].itemId].type = sQuery.typeFilter

\* the best candidate of the index is another user's item; the response
\* holds the user's own item only
C34_Witness ==
  /\ sDone /\ Len(sResults) = 1 /\ sQuery.typeFilter = "IMAGE"
  /\ \E i \in DOMAIN sStore :
       /\ sStore[i].userId = "other" /\ sStore[i].type = "IMAGE" /\ sStore[i].sim = 90
  /\ sStore[sResults[1].itemId].sim = 60
  /\ sResults[1].relevanceScore = 60

C36_EngineTerminated ==
  \A j \in DOMAIN jobs :
    /\ jobs[j].l.engine = "created" => At(j, "allSettled")
    /\ jobs[j].l.joined => jobs[j].l.engine = "terminated"

\* the content upsert of the OCR branch threw after the join
C36_Witness ==
  \E j \in DOMAIN jobs :
    /\ jobs[j].l.joined /\ jobs[j].l.ocr = "text" /\ jobs[j].l.storeFault
    /\ ItemOf(j).ocrText = Empty
    /\ jobs[j].l.engine = "terminated" /\ jobs[j].l.pc = "markProcessed"

\* ================================================================== C37
\* C37 (as claimed): in every state, also after a restart of the server
\* process, the vectorId of each row of the embeddings table is the id of a
\* record of the index.
C37_RowsPointIntoIndex ==
  \A k \in 1..Len(eRows) :
    \E n \in 1..Len(index) : vectorId(index[n].itemId) = eRows[k][2]

\* ================================================================== C38
\* the payload type of the job matches no branch for the row it fetched
NoBranch(j) ==
  /\ jobs[j].l.item # NullItem
  /\ \/ jobs[j].type = "text" /\ ~Truthy(jobs[j].l.item.text)
     \/ jobs[j].type = "link" /\ ~Truthy(jobs[j].l.item.sourceUrl)

\* C38: an attempt of a text job whose row has no content text, or of a link
\* job whose row has no sourceUrl, runs no enrich-by-kind step and writes
\* nothing but the status: the row keeps the fields it was fetched with; when
\* no store call throws, the attempt does not reach the catch block and ends
\* with the job completed and the item PROCESSED.
C38_NoBranchNoEnrichment ==
  \A j \in DOMAIN jobs :
    NoBranch(j)
      => /\ jobs[j].l.pc \in {"embed", "markProcessed", "catch", "idle"}
         /\ [ItemOf(j) EXCEPT !.status = "NONE"] = [jobs[j].l.item EXCEPT !.status = "NONE"]
         /\ ~jobs[j].l.storeFault
              => /\ jobs[j].l.pc # "catch"
                 /\ jobs[j].l.pc = "idle"
                      => jobs[j].state = "completed" /\ ItemOf(j).status = "PROCESSED"

C38_Witness ==
  \E j \in DOMAIN jobs :
    /\ NoBranch(j) /\ jobs[j].type = "link" /\ ItemOf(j).type = "NOTE"
    /\ jobs[j].state = "completed" /\ ItemOf(j).status = "PROCESSED"
    /\ ItemOf(j).summary = Empty /\ jobs[j].l.embed = "stored"

\* ================================================================== C39
\* C39: a request for an itemId that has no row in the items table is
\* answered 400 'Item not found' by the step that looks the item up (or ends
\* with the error of the lookup when the store call itself throws); that
\* step leaves the index and the embeddings table as they are, and the
\* request makes no further step, so it never writes either of them.
C39_MissingItemRejected ==
  [][\A r \in DOMAIN eReqs :
       /\ (ReqAt(r, "findUnique") /\ eReqs[r][2] \notin eItems /\ eReqs'[r] # eReqs[r])
            => /\ eReqs'[r][1] \in {"rejected", "failed"}
               /\ index' = index /\ eRows' = eRows
       /\ ReqAt(r, "rejected")
            => /\ eReqs'[r] = eReqs[r]
               /\ \A n \in 1..Len(eLog) : eLog[n] # r]_vars

C39_Witness ==
  \E r \in DOMAIN eReqs :
    /\ ReqAt(r, "rejected") /\ eReqs[r][2] \in eDeleted
    /\ RecordsOf(eReqs[r][2]) = {} /\ RowsOf(eReqs[r][2]) = {}
    /\ Len(index) = 1 /\ Len(eRows) = 1
====
